---- MODULE Spec2Model ----
(***************************************************************************)
(* A model of manokit.Email (src/manokit/__init__.py): the draft's state,  *)
(* the builder operations and send.  Every call runs to completion, so     *)
(* each operation is one action; `last` records the call that was made,    *)
(* its argument and how it ended (the value returned or the exception      *)
(* raised).                                                                *)
(***************************************************************************)
EXTENDS Integers, Sequences, FiniteSets, TLC

VARIABLES
    rec, cc, bcc,            \* self.rec, self.cc, self.bcc
    email_validators,        \* self.email_validators: scope -> validator
    attachments,             \* self.attachments: set of Path objects
    available_filesize,      \* self.available_filesize
    FILESIZE_LIMIT,          \* self.FILESIZE_LIMIT
    author,                  \* self.author
    email_handler,           \* self.email_handler
    subject, body,           \* self.subject, self.body
    timestamp,               \* self.timestamp
    sendmail_calls,          \* number of calls of email_handler.sendmail
    wire,                    \* the arguments of the latest sendmail call
    last                     \* the latest call: its name, arguments, outcome

vars == <<rec, cc, bcc, email_validators, attachments, available_filesize,
          FILESIZE_LIMIT, author, email_handler, subject, body, timestamp,
          sendmail_calls, wire, last>>

addr_vars == <<rec, cc, bcc>>
att_vars == <<attachments, available_filesize>>
login_vars == <<author, email_handler>>
text_vars == <<subject, body>>
transport_vars == <<sendmail_calls, wire>>

(***************************************************************************)
(* Bounds of the model.                                                    *)
(***************************************************************************)
\* the longest `scopes` list handed to set_custom_email_validator
MaxScopes == 2
\* the largest filesize_limit a draft is constructed with
MaxLimit == 6
\* the number of sendmail calls after which send is no longer explored
MaxSends == 2
\* the longest string handed to the default validator
MaxLen == 5

None == "None"

(***************************************************************************)
(* Addresses are sequences of characters.  The four addresses stand for    *)
(* the tests' "boss@examplecorp.com", "alreadybcc@examplecorp.com",        *)
(* "spy@rivalcorp.com" and "test@ohmygod......what", shortened.            *)
(***************************************************************************)
boss == <<"b", "o", "s", "s", "@", "e", "x", ".", "c", "o">>
alreadybcc == <<"a", "-", "b", "@", "e", "x", ".", "c", "o">>
spy == <<"s", "p", "y", "@", "r", "v", ".", "c", "o">>
malformed == <<"t", "@", "o", "h", ".", ".", "w">>

Addresses == {boss, alreadybcc, spy, malformed}

\* \w and \d of the pattern, over the characters the model uses
WordChars == {"a", "b", "c", "d", "e", "g", "h", "l", "m", "o", "p", "r",
              "s", "t", "u", "v", "w", "x", "y", "A", "0", "1", "_"}
LocalChars == WordChars \cup {"-", "+", "."}
DomainChars_with_dot == WordChars \cup {"-", "+", "."}
DomainChars == WordChars \cup {"-", "+"}

\* (?:\.{1}[\w]+)+ matched against the whole of s
TldTail(s) ==
    /\ Len(s) >= 2
    /\ s[1] = "."
    /\ \A k \in 1..Len(s) :
          \/ s[k] \in WordChars
          \/ s[k] = "." /\ k < Len(s) /\ s[k + 1] \in WordChars

\* re.fullmatch("^[-_+.\d\w]+@[-_+\d\w]+(?:\.{1}[\w]+)+$", address)
default_email_validator(address) ==
    \E i \in 2..Len(address) :
        /\ address[i] = "@"
        /\ \A k \in 1..(i - 1) : address[k] \in LocalChars
        /\ \E j \in (i + 1)..Len(address) :
              /\ \A k \in (i + 1)..j : address[k] \in DomainChars
              /\ TldTail(SubSeq(address, j + 1, Len(address)))

\* the test's custom validator: lambda addr: addr.endswith("@examplecorp.com")
CorpSuffix == <<"@", "e", "x", ".", "c", "o">>
endswith(s, suffix) ==
    /\ Len(s) >= Len(suffix)
    /\ SubSeq(s, Len(s) - Len(suffix) + 1, Len(s)) = suffix

Validators == {"default", "endswith_examplecorp"}

\* calling a registered validator on an address
ApplyValidator(validator, address) ==
    IF validator = "default"
    THEN default_email_validator(address)
    ELSE endswith(address, CorpSuffix)

Scopes == {"author", "recipients", "cc", "bcc"}

check_with_recipients_validator(address, scope) ==
    ApplyValidator(email_validators["recipients"], address)
check_if_valid_email_address(address, scope) ==
    ApplyValidator(email_validators[scope], address)

\* email_handler and author before login, and wire before any sendmail call
NoHandler == [class |-> "NoneType"]
NoAuthor == <<>>
NoWire == <<>>

(***************************************************************************)
(* Email.__init__                                                          *)
(***************************************************************************)
Construct(filesize_limit) ==
    /\ email_handler = NoHandler
    /\ author = NoAuthor
    /\ subject = "<no subject>"
    /\ body = "<no body>"
    /\ attachments = {}
    /\ rec = {}
    /\ cc = {}
    /\ bcc = {}
    /\ FILESIZE_LIMIT = filesize_limit
    /\ available_filesize = filesize_limit
    /\ email_validators = [s \in Scopes |-> "default"]
    /\ timestamp = "now"
    /\ sendmail_calls = 0
    /\ wire = NoWire
    /\ last = [op |-> "__init__", filesize_limit |-> filesize_limit, ret |-> None]

Init == \E filesize_limit \in 0..MaxLimit : Construct(filesize_limit)

(***************************************************************************)
(* Email.add_recipient, Email.add_cc, Email.add_bcc                        *)
(***************************************************************************)
add_recipient_ignoring_bcc(address) ==
    IF ~check_if_valid_email_address(address, "recipients")
    THEN /\ last' = [op |-> "add_recipient", address |-> address, ret |-> "NotAValidEmailAddressError"]
         /\ UNCHANGED <<addr_vars, email_validators, att_vars, FILESIZE_LIMIT,
                        login_vars, text_vars, timestamp, transport_vars>>
    ELSE /\ rec' = IF address \notin cc THEN rec \cup {address} ELSE rec
         /\ last' = [op |-> "add_recipient", address |-> address, ret |-> "self"]
         /\ UNCHANGED <<cc, bcc, email_validators, att_vars, FILESIZE_LIMIT,
                        login_vars, text_vars, timestamp, transport_vars>>

add_recipient(address) ==
    IF ~check_if_valid_email_address(address, "recipients")
    THEN /\ last' = [op |-> "add_recipient", address |-> address, ret |-> "NotAValidEmailAddressError"]
         /\ UNCHANGED <<addr_vars, email_validators, att_vars, FILESIZE_LIMIT,
                        login_vars, text_vars, timestamp, transport_vars>>
    ELSE /\ rec' = IF address \notin cc /\ address \notin bcc
                   THEN rec \cup {address}
                   ELSE rec
         /\ last' = [op |-> "add_recipient", address |-> address, ret |-> "self"]
         /\ UNCHANGED <<cc, bcc, email_validators, att_vars, FILESIZE_LIMIT,
                        login_vars, text_vars, timestamp, transport_vars>>

add_cc_membership_first(address) ==
    IF address \in rec \/ address \in bcc
    THEN /\ last' = [op |-> "add_cc", address |-> address, ret |-> "self"]
         /\ UNCHANGED <<addr_vars, email_validators, att_vars, FILESIZE_LIMIT,
                        login_vars, text_vars, timestamp, transport_vars>>
    ELSE IF ~check_if_valid_email_address(address, "cc")
    THEN /\ last' = [op |-> "add_cc", address |-> address, ret |-> "NotAValidEmailAddressError"]
         /\ UNCHANGED <<addr_vars, email_validators, att_vars, FILESIZE_LIMIT,
                        login_vars, text_vars, timestamp, transport_vars>>
    ELSE /\ cc' = cc \cup {address}
         /\ last' = [op |-> "add_cc", address |-> address, ret |-> "self"]
         /\ UNCHANGED <<rec, bcc, email_validators, att_vars, FILESIZE_LIMIT,
                        login_vars, text_vars, timestamp, transport_vars>>

add_cc(address) ==
    IF ~check_if_valid_email_address(address, "cc")
    THEN /\ last' = [op |-> "add_cc", address |-> address, ret |-> "NotAValidEmailAddressError"]
         /\ UNCHANGED <<addr_vars, email_validators, att_vars, FILESIZE_LIMIT,
                        login_vars, text_vars, timestamp, transport_vars>>
    ELSE /\ cc' = IF address \notin rec /\ address \notin bcc
                  THEN cc \cup {address}
                  ELSE cc
         /\ last' = [op |-> "add_cc", address |-> address, ret |-> "self"]
         /\ UNCHANGED <<rec, bcc, email_validators, att_vars, FILESIZE_LIMIT,
                        login_vars, text_vars, timestamp, transport_vars>>

add_bcc_ignoring_cc(address) ==
    IF ~check_if_valid_email_address(address, "bcc")
    THEN /\ last' = [op |-> "add_bcc", address |-> address, ret |-> "NotAValidEmailAddressError"]
         /\ UNCHANGED <<addr_vars, email_validators, att_vars, FILESIZE_LIMIT,
                        login_vars, text_vars, timestamp, transport_vars>>
    ELSE /\ bcc' = IF address \notin rec THEN bcc \cup {address} ELSE bcc
         /\ last' = [op |-> "add_bcc", address |-> address, ret |-> "self"]
         /\ UNCHANGED <<rec, cc, email_validators, att_vars, FILESIZE_LIMIT,
                        login_vars, text_vars, timestamp, transport_vars>>

add_bcc(address) ==
    IF ~check_if_valid_email_address(address, "bcc")
    THEN /\ last' = [op |-> "add_bcc", address |-> address, ret |-> "NotAValidEmailAddressError"]
         /\ UNCHANGED <<addr_vars, email_validators, att_vars, FILESIZE_LIMIT,
                        login_vars, text_vars, timestamp, transport_vars>>
    ELSE /\ bcc' = IF address \notin rec /\ address \notin cc
                   THEN bcc \cup {address}
                   ELSE bcc
         /\ last' = [op |-> "add_bcc", address |-> address, ret |-> "self"]
         /\ UNCHANGED <<rec, cc, email_validators, att_vars, FILESIZE_LIMIT,
                        login_vars, text_vars, timestamp, transport_vars>>

(***************************************************************************)
(* Email.set_custom_email_validator                                        *)
(***************************************************************************)
ScopeNames == Scopes \cup {"all", "everyone"}

ScopeLists == UNION {[1..n -> ScopeNames] : n \in 0..MaxScopes}

AllowedScopes == {"all", "author", "recipients", "cc", "bcc"}

\* the position of the first name of the list the loop rejects, or Len + 1
FirstInvalid(scopes) ==
    IF \E i \in 1..Len(scopes) : scopes[i] \notin AllowedScopes
    THEN CHOOSE i \in 1..Len(scopes) :
            /\ scopes[i] \notin AllowedScopes
            /\ \A k \in 1..(i - 1) : scopes[k] \in AllowedScopes
    ELSE Len(scopes) + 1

set_custom_email_validator_all_but_author(validator, scopes) ==
    /\ IF \E i \in 1..Len(scopes) : scopes[i] = "all"
       THEN /\ email_validators' =
                  [s \in Scopes |->
                      IF s = "author" THEN email_validators[s] ELSE validator]
            /\ last' = [op |-> "set_custom_email_validator",
                        validator |-> validator, scopes |-> scopes,
                        ret |-> None]
       ELSE /\ email_validators' =
                  [s \in Scopes |->
                      IF \E i \in 1..(FirstInvalid(scopes) - 1) : scopes[i] = s
                      THEN validator
                      ELSE email_validators[s]]
            /\ last' = [op |-> "set_custom_email_validator",
                        validator |-> validator, scopes |-> scopes,
                        ret |-> IF FirstInvalid(scopes) <= Len(scopes)
                                THEN "ValueError"
                                ELSE None]
    /\ UNCHANGED <<addr_vars, att_vars, FILESIZE_LIMIT, login_vars, text_vars,
                   timestamp, transport_vars>>

set_custom_email_validator(validator, scopes) ==
    /\ IF \E i \in 1..Len(scopes) : scopes[i] = "all"
       THEN /\ email_validators' = [s \in Scopes |-> validator]
            /\ last' = [op |-> "set_custom_email_validator",
                        validator |-> validator, scopes |-> scopes,
                        ret |-> None]
       ELSE /\ email_validators' =
                  [s \in Scopes |->
                      IF \E i \in 1..(FirstInvalid(scopes) - 1) : scopes[i] = s
                      THEN validator
                      ELSE email_validators[s]]
            /\ last' = [op |-> "set_custom_email_validator",
                        validator |-> validator, scopes |-> scopes,
                        ret |-> IF FirstInvalid(scopes) <= Len(scopes)
                                THEN "ValueError"
                                ELSE None]
    /\ UNCHANGED <<addr_vars, att_vars, FILESIZE_LIMIT, login_vars, text_vars,
                   timestamp, transport_vars>>

(***************************************************************************)
(* The file system add_attachment reads.  A path string is the sequence of *)
(* its components; the working directory is /tmp, which holds the tests'   *)
(* two files (sizes in units of 10 bytes), a smaller file, an empty file   *)
(* and two directories.  Nothing else exists.                              *)
(***************************************************************************)
cwd == <<"/", "tmp">>

FileNames == {"10kb.txt", "30kb.txt", "70kb.txt", "empty.txt", "dir",
              "emptydir", "missing.txt"}

Disk ==
    [n \in FileNames \ {"missing.txt"} |->
        CASE n = "10kb.txt" -> [is_file |-> TRUE, st_size |-> 1]
          [] n = "30kb.txt" -> [is_file |-> TRUE, st_size |-> 3]
          [] n = "70kb.txt" -> [is_file |-> TRUE, st_size |-> 7]
          [] n = "empty.txt" -> [is_file |-> TRUE, st_size |-> 0]
          [] n = "dir" -> [is_file |-> FALSE, st_size |-> 4]
          [] n = "emptydir" -> [is_file |-> FALSE, st_size |-> 0]]

\* the spellings a caller passes: relative, relative with "./", absolute
PathStrings ==
    UNION {{<<n>>, <<".", n>>, cwd \o <<n>>} : n \in FileNames}

\* pathlib.Path(path): "." components are dropped, nothing is resolved
Path(path) == SelectSeq(path, LAMBDA c : c # ".")

\* the absolute path a Path object refers to
absolute(p) == IF p[1] = "/" THEN p ELSE cwd \o p

exists(p) ==
    LET a == absolute(p)
    IN  Len(a) = 3 /\ SubSeq(a, 1, 2) = cwd /\ a[3] \in DOMAIN Disk

\* p.stat() and p.is_file() of an existing path
stat(p) == Disk[absolute(p)[3]]
is_file(p) == exists(p) /\ stat(p).is_file

(***************************************************************************)
(* Email.add_attachment                                                    *)
(***************************************************************************)
already_attached(p) == p \in attachments

rem_filesize_of_limit(p) == FILESIZE_LIMIT - stat(p).st_size
rem_filesize(p) == available_filesize - stat(p).st_size

over_limit_inclusive(rem) == rem <= 0
over_limit_stale(rem) == available_filesize < 0
over_limit(rem) == rem < 0

empty_never(p) == FALSE
empty_regular_file(p) == stat(p).is_file /\ stat(p).st_size = 0
empty(p) == stat(p).st_size = 0

add_attachment(path) ==
    LET p == Path(path)
        ret == CASE already_attached(p) -> None
                 [] ~already_attached(p) /\ ~exists(p) -> "FileNotFoundError"
                 [] ~already_attached(p) /\ exists(p) /\ empty(p) -> None
                 [] ~already_attached(p) /\ exists(p) /\ ~empty(p)
                        /\ ~is_file(p) -> "AttachmentError"
                 [] ~already_attached(p) /\ exists(p) /\ ~empty(p)
                        /\ is_file(p) /\ over_limit(rem_filesize(p))
                        -> "AttachmentError"
                 [] OTHER -> "self"
    IN  /\ IF ret = "self"
           THEN /\ attachments' = attachments \cup {p}
                /\ available_filesize' = rem_filesize(p)
           ELSE UNCHANGED att_vars
        /\ last' = [op |-> "add_attachment", path |-> path, ret |-> ret]
        /\ UNCHANGED <<addr_vars, email_validators, FILESIZE_LIMIT,
                       login_vars, text_vars, timestamp, transport_vars>>

(***************************************************************************)
(* Email.login and Email.logout.  The SMTP host's answer is an input:      *)
(* "ok", or the exception the connection or the authentication raises.     *)
(* email_handler is NoHandler (None) or the smtplib session object.        *)
(***************************************************************************)
HostAnswers == {"ok", "SMTPConnectError", "SMTPAuthenticationError"}

Session(username, use_starttls) ==
    [class |-> IF use_starttls THEN "SMTP" ELSE "SMTP_SSL",
     user |-> username,
     connected |-> TRUE]

\* a login that records the session and the author before the host has
\* answered
login_recording_first(username, use_starttls, answer) ==
    IF ~check_if_valid_email_address(username, "author")
    THEN /\ last' = [op |-> "login", username |-> username, ret |-> "NotAValidEmailAddressError"]
         /\ UNCHANGED <<addr_vars, email_validators, att_vars, FILESIZE_LIMIT,
                        login_vars, text_vars, timestamp, transport_vars>>
    ELSE /\ email_handler' = Session(username, use_starttls)
         /\ author' = username
         /\ last' = [op |-> "login", username |-> username,
                     ret |-> IF answer # "ok" THEN answer ELSE "self"]
         /\ UNCHANGED <<addr_vars, email_validators, att_vars, FILESIZE_LIMIT,
                        text_vars, timestamp, transport_vars>>

login(username, use_starttls, answer) ==
    IF ~check_if_valid_email_address(username, "author")
    THEN /\ last' = [op |-> "login", username |-> username, ret |-> "NotAValidEmailAddressError"]
         /\ UNCHANGED <<addr_vars, email_validators, att_vars, FILESIZE_LIMIT,
                        login_vars, text_vars, timestamp, transport_vars>>
    ELSE IF answer # "ok"
    THEN /\ last' = [op |-> "login", username |-> username, ret |-> answer]
         /\ UNCHANGED <<addr_vars, email_validators, att_vars, FILESIZE_LIMIT,
                        login_vars, text_vars, timestamp, transport_vars>>
    ELSE /\ email_handler' = Session(username, use_starttls)
         /\ author' = username
         /\ last' = [op |-> "login", username |-> username, ret |-> "self"]
         /\ UNCHANGED <<addr_vars, email_validators, att_vars, FILESIZE_LIMIT,
                        text_vars, timestamp, transport_vars>>

logout ==
    /\ IF email_handler = NoHandler
       THEN /\ last' = [op |-> "logout", ret |-> "AttributeError"]
            /\ UNCHANGED email_handler
       ELSE IF ~email_handler.connected
       THEN /\ last' = [op |-> "logout", ret |-> "SMTPServerDisconnected"]
            /\ UNCHANGED email_handler
       ELSE /\ email_handler' = [email_handler EXCEPT !.connected = FALSE]
            /\ last' = [op |-> "logout", ret |-> None]
    /\ UNCHANGED <<addr_vars, email_validators, att_vars, FILESIZE_LIMIT,
                   author, text_vars, timestamp, transport_vars>>

(***************************************************************************)
(* Email.set_body, Email.set_subject                                       *)
(***************************************************************************)
Texts == {"<p>hello</p>", "hello"}

set_body(text) ==
    /\ body' = text
    /\ last' = [op |-> "set_body", text |-> text, ret |-> "self"]
    /\ UNCHANGED <<addr_vars, email_validators, att_vars, FILESIZE_LIMIT,
                   login_vars, subject, timestamp, transport_vars>>

set_subject(text) ==
    /\ subject' = text
    /\ last' = [op |-> "set_subject", text |-> text, ret |-> "self"]
    /\ UNCHANGED <<addr_vars, email_validators, att_vars, FILESIZE_LIMIT,
                   login_vars, body, timestamp, transport_vars>>

(***************************************************************************)
(* Email.send.  Iterating a Python set yields its members once each, in an *)
(* order the program does not choose: list(s) and ",".join(s) are any      *)
(* arrangement of s.                                                       *)
(***************************************************************************)
Arrangements(S) ==
    {q \in [1..Cardinality(S) -> S] : \A i, j \in DOMAIN q : q[i] = q[j] => i = j}

RECURSIVE join(_, _)
join(sep, q) ==
    IF Len(q) = 0 THEN <<>>
    ELSE IF Len(q) = 1 THEN q[1]
    ELSE q[1] \o sep \o join(sep, Tail(q))

strftime(t) == <<"%d/%m/%Y %H:%M:%S", t>>

\* one MIMEBase part per attachment
Part(file) ==
    [filename |-> file[Len(file)], payload |-> <<"base64", absolute(file)>>]

\* a message that also lists the blind-copy recipients in a header
Message_with_bcc(cc_order, att_order) ==
    [Subject |-> subject,
     From |-> author,
     Date |-> strftime(timestamp),
     Cc |-> join(<<",">>, cc_order),
     Bcc |-> join(<<",">>, CHOOSE q \in Arrangements(bcc) : TRUE),
     text |-> [payload |-> body, subtype |-> "html"],
     parts |-> [i \in DOMAIN att_order |-> Part(att_order[i])]]

\* the MIMEMultipart message, given the orders the sets are iterated in
Message(cc_order, att_order) ==
    [Subject |-> subject,
     From |-> author,
     Date |-> strftime(timestamp),
     Cc |-> join(<<",">>, cc_order),
     text |-> [payload |-> body, subtype |-> "html"],
     parts |-> [i \in DOMAIN att_order |-> Part(att_order[i])]]

no_recipients_at_all == Cardinality(rec \cup cc \cup bcc) < 1
no_recipients == Cardinality(rec) < 1

envelope_without_bcc == rec \cup cc
envelope == rec \cup cc \cup bcc

\* a send that empties the draft's recipients once the message has gone out
send_then_clear(to_addrs, cc_order, att_order, refused) ==
    IF no_recipients
    THEN /\ last' = [op |-> "send", refused |-> {}, ret |-> "EmailError"]
         /\ UNCHANGED <<addr_vars, email_validators, att_vars, FILESIZE_LIMIT,
                        login_vars, text_vars, timestamp, transport_vars>>
    ELSE IF email_handler = NoHandler
    THEN /\ last' = [op |-> "send", refused |-> {}, ret |-> "AttributeError"]
         /\ UNCHANGED <<addr_vars, email_validators, att_vars, FILESIZE_LIMIT,
                        login_vars, text_vars, timestamp, transport_vars>>
    ELSE /\ sendmail_calls < MaxSends
         /\ sendmail_calls' = sendmail_calls + 1
         /\ wire' = <<[from_addr |-> author,
                      to_addrs |-> to_addrs,
                      msg |-> Message(cc_order, att_order)]>>
         /\ last' = [op |-> "send", refused |-> refused, ret |->
                         CASE ~email_handler.connected -> "SMTPServerDisconnected"
                           [] email_handler.connected
                                 /\ refused = envelope -> "SMTPRecipientsRefused"
                           [] email_handler.connected
                                 /\ refused # envelope /\ refused # {} -> "TypeError"
                           [] OTHER -> "self"]
         /\ rec' = IF email_handler.connected /\ refused = {} THEN {} ELSE rec
         /\ UNCHANGED <<cc, bcc, email_validators, att_vars, FILESIZE_LIMIT,
                        login_vars, text_vars, timestamp>>

\* `refused` is the set of recipients the host rejects: smtplib raises
\* SMTPRecipientsRefused when it is all of them, and returns them otherwise
send(to_addrs, cc_order, att_order, refused) ==
    IF no_recipients
    THEN /\ last' = [op |-> "send", refused |-> {}, ret |-> "EmailError"]
         /\ UNCHANGED <<addr_vars, email_validators, att_vars, FILESIZE_LIMIT,
                        login_vars, text_vars, timestamp, transport_vars>>
    ELSE IF email_handler = NoHandler
    THEN /\ last' = [op |-> "send", refused |-> {}, ret |-> "AttributeError"]
         /\ UNCHANGED <<addr_vars, email_validators, att_vars, FILESIZE_LIMIT,
                        login_vars, text_vars, timestamp, transport_vars>>
    ELSE /\ sendmail_calls < MaxSends
         /\ sendmail_calls' = sendmail_calls + 1
         /\ wire' = <<[from_addr |-> author,
                      to_addrs |-> to_addrs,
                      msg |-> Message(cc_order, att_order)]>>
         /\ last' = [op |-> "send", refused |-> refused, ret |->
                         CASE ~email_handler.connected -> "SMTPServerDisconnected"
                           [] email_handler.connected
                                 /\ refused = envelope -> "SMTPRecipientsRefused"
                           [] email_handler.connected
                                 /\ refused # envelope /\ refused # {} -> "TypeError"
                           [] OTHER -> "self"]
         /\ UNCHANGED <<addr_vars, email_validators, att_vars, FILESIZE_LIMIT,
                        login_vars, text_vars, timestamp>>

SendStep ==
    \E to_addrs \in Arrangements(envelope),
       cc_order \in Arrangements(cc),
       att_order \in Arrangements(attachments),
       refused \in SUBSET envelope :
        send(to_addrs, cc_order, att_order, refused)

(***************************************************************************)
(* The address operations on a draft built with the largest limit.  The    *)
(* validators are replaced one scope (or "all", or a bad name) at a time,  *)
(* which reaches every assignment of validators to scopes.                 *)
(***************************************************************************)
SingleScopeLists == {<<s>> : s \in ScopeNames}

NextAddr ==
    \/ \E address \in Addresses : add_recipient(address)
    \/ \E address \in Addresses : add_cc(address)
    \/ \E address \in Addresses : add_bcc(address)
    \/ \E validator \in Validators, scopes \in SingleScopeLists :
          set_custom_email_validator(validator, scopes)

SpecAddr == Construct(MaxLimit) /\ [][NextAddr]_vars

(***************************************************************************)
(* The attachment operation on a draft built with any limit.               *)
(***************************************************************************)
NextAtt == \E path \in PathStrings : add_attachment(path)

SpecAtt == Init /\ [][NextAtt]_vars

(***************************************************************************)
(* Addressing, logging in and sending on a draft with the default          *)
(* validators.                                                             *)
(***************************************************************************)
NextSend ==
    \/ \E address \in Addresses : add_recipient(address)
    \/ \E address \in Addresses : add_cc(address)
    \/ \E address \in Addresses : add_bcc(address)
    \/ \E username \in {boss, malformed}, use_starttls \in BOOLEAN,
          answer \in HostAnswers :
          login(username, use_starttls, answer)
    \/ logout
    \/ SendStep

SpecSend == Construct(MaxLimit) /\ [][NextSend]_vars

(***************************************************************************)
(* Replacing validators, with every list of up to MaxScopes scope names.   *)
(***************************************************************************)
NextValidator ==
    \E validator \in Validators, scopes \in ScopeLists :
        set_custom_email_validator(validator, scopes)

SpecValidator == Construct(MaxLimit) /\ [][NextValidator]_vars

(***************************************************************************)
(* Logging in and out with every address as the username, under every      *)
(* assignment of validators to scopes.                                     *)
(***************************************************************************)
NextLogin ==
    \/ \E username \in Addresses, use_starttls \in BOOLEAN,
          answer \in HostAnswers :
          login(username, use_starttls, answer)
    \/ logout
    \/ \E validator \in Validators, scopes \in SingleScopeLists :
          set_custom_email_validator(validator, scopes)

SpecLogin == Construct(MaxLimit) /\ [][NextLogin]_vars

(***************************************************************************)
(* The default validator as a function of its argument: every string of up *)
(* to MaxLen characters over a letter, a capital, "-", ".", "@" and a       *)
(* character outside every class of the pattern, and the tests' two        *)
(* addresses.                                                              *)
(***************************************************************************)
Alphabet == {"a", "A", "-", ".", "@", "!"}

test_valid_address ==
    <<"t", "e", "s", "t", "@", "e", "x", "a", "m", "p", "l", "e", ".",
      "e", "d", "u", ".", "u", "a">>
test_invalid_address ==
    <<"t", "e", "s", "t", "@", "o", "h", "m", "y", "g", "o", "d", ".", ".",
      ".", ".", ".", ".", "w", "h", "a", "t">>

Strings ==
    UNION {[1..n -> Alphabet] : n \in 0..MaxLen}
       \cup {test_valid_address, test_invalid_address}

validate(address) ==
    /\ last' = [op |-> "_default_email_validator", address |-> address,
                ret |-> IF default_email_validator(address)
                        THEN "True" ELSE "False"]
    /\ UNCHANGED <<addr_vars, email_validators, att_vars, FILESIZE_LIMIT,
                   login_vars, text_vars, timestamp, transport_vars>>

NextValidate ==
    /\ last.op = "__init__"
    /\ \E address \in Strings : validate(address)

SpecValidate == Construct(MaxLimit) /\ [][NextValidate]_vars

(***************************************************************************)
(* Every operation.                                                        *)
(***************************************************************************)
Next ==
    \/ \E address \in Addresses : add_recipient(address)
    \/ \E address \in Addresses : add_cc(address)
    \/ \E address \in Addresses : add_bcc(address)
    \/ \E validator \in Validators, scopes \in ScopeLists :
          set_custom_email_validator(validator, scopes)
    \/ \E path \in PathStrings : add_attachment(path)
    \/ \E username \in Addresses, use_starttls \in BOOLEAN,
          answer \in HostAnswers :
          login(username, use_starttls, answer)
    \/ logout
    \/ \E text \in Texts : set_body(text)
    \/ \E text \in Texts : set_subject(text)
    \/ SendStep

Spec == Init /\ [][Next]_vars

(***************************************************************************)
(* Properties of the address sets, checked under SpecAddr.                 *)
(***************************************************************************)
AddOps == {"add_recipient", "add_cc", "add_bcc"}

\* the scope whose validator an add operation consults, and the two sets
\* that block it
ScopeOf(op) ==
    CASE op = "add_recipient" -> "recipients"
      [] op = "add_cc" -> "cc"
      [] op = "add_bcc" -> "bcc"

OthersOf(op) ==
    CASE op = "add_recipient" -> cc \cup bcc
      [] op = "add_cc" -> rec \cup bcc
      [] op = "add_bcc" -> rec \cup cc

\* C1: in every reachable state rec, cc and bcc are pairwise disjoint.
C1_PairwiseDisjoint ==
    /\ rec \cap cc = {}
    /\ rec \cap bcc = {}
    /\ cc \cap bcc = {}

\* an add_bcc of an address held by cc was turned away, with all three sets
\* in use and a custom validator installed
C1_Witness ==
    /\ last.op = "add_bcc"
    /\ last.ret = "self"
    /\ last.address \in cc
    /\ rec # {} /\ bcc # {}
    /\ \E s \in Scopes : email_validators[s] # "default"

\* C2 as stated: an add of an address held by one of the other two sets
\* raises nothing and changes none of the sets.
C2_SilentNoOp ==
    [][(last'.op \in AddOps /\ last'.address \in OthersOf(last'.op))
          => (last'.ret = "self" /\ UNCHANGED addr_vars)]_vars

\* C2 amended: an add of an address held by one of the other two sets
\* changes none of the sets; it raises nothing when the address passes the
\* validator registered for the operation's scope, and raises the
\* invalid-address error when it fails it.
C2_NoOpAfterValidation ==
    [][(last'.op \in AddOps /\ last'.address \in OthersOf(last'.op))
          => /\ UNCHANGED addr_vars
             /\ last'.ret =
                   IF ApplyValidator(email_validators[ScopeOf(last'.op)],
                                     last'.address)
                   THEN "self"
                   ELSE "NotAValidEmailAddressError"]_vars

\* add_recipient returned normally for an address that cc or bcc holds
C2_Witness ==
    /\ last.op = "add_recipient"
    /\ last.ret = "self"
    /\ last.address \in cc \cup bcc

\* C3: an add of an address that fails the validator registered for the
\* operation's scope raises the invalid-address error and changes none of
\* the sets.
C3_InvalidAddressRejected ==
    [][(/\ last'.op \in AddOps
        /\ ~ApplyValidator(email_validators[ScopeOf(last'.op)], last'.address))
          => (last'.ret = "NotAValidEmailAddressError" /\ UNCHANGED addr_vars)]_vars

\* add_cc raised for an address that the recipients validator accepts, on a
\* draft that already holds addresses
C3_Witness ==
    /\ last.op = "add_cc"
    /\ last.ret = "NotAValidEmailAddressError"
    /\ ApplyValidator(email_validators["recipients"], last.address)
    /\ rec # {}

(***************************************************************************)
(* Properties of the attachments, checked under SpecAtt.                   *)
(***************************************************************************)
RECURSIVE SumSizes(_)
SumSizes(S) ==
    IF S = {} THEN 0
    ELSE LET p == CHOOSE x \in S : TRUE
         IN  stat(p).st_size + SumSizes(S \ {p})

\* C4: add_attachment of a regular file that is no entry of attachments and
\* whose size n has 0 < n <= available_filesize returns the draft, adds the
\* file and lowers available_filesize by n.
C4_AdmitWithinBudget ==
    [][(/\ last'.op = "add_attachment"
        /\ Path(last'.path) \notin attachments
        /\ exists(Path(last'.path))
        /\ Disk[absolute(Path(last'.path))[3]].is_file
        /\ Disk[absolute(Path(last'.path))[3]].st_size > 0
        /\ Disk[absolute(Path(last'.path))[3]].st_size <= available_filesize)
          => /\ last'.ret = "self"
             /\ attachments' = attachments \cup {Path(last'.path)}
             /\ available_filesize' =
                   available_filesize - Disk[absolute(Path(last'.path))[3]].st_size]_vars

\* a file was admitted whose size was the whole of the remaining budget
C4_Witness ==
    /\ last.op = "add_attachment"
    /\ last.ret = "self"
    /\ Path(last.path) \in attachments
    /\ available_filesize = 0

\* C5: add_attachment of a path that resolves to a file an entry of
\* attachments resolves to changes neither attachments nor
\* available_filesize.
C5_UniqueByResolvedPath ==
    [][(/\ last'.op = "add_attachment"
        /\ \E q \in attachments : absolute(q) = absolute(Path(last'.path)))
          => UNCHANGED att_vars]_vars

\* C6 as stated: add_attachment of a file whose size exceeds
\* available_filesize raises AttachmentError and changes nothing.
C6_OverBudgetRaises ==
    [][(/\ last'.op = "add_attachment"
        /\ exists(Path(last'.path))
        /\ Disk[absolute(Path(last'.path))[3]].st_size > available_filesize)
          => (last'.ret = "AttachmentError" /\ UNCHANGED att_vars)]_vars

\* C6 amended: add_attachment of a path that is no entry of attachments and
\* whose size exceeds available_filesize raises AttachmentError and changes
\* nothing.
C6_OverBudgetRaisesUnlessAttached ==
    [][(/\ last'.op = "add_attachment"
        /\ Path(last'.path) \notin attachments
        /\ exists(Path(last'.path))
        /\ Disk[absolute(Path(last'.path))[3]].st_size > available_filesize)
          => (last'.ret = "AttachmentError" /\ UNCHANGED att_vars)]_vars

\* a regular file larger than what is left was refused after an earlier
\* file had been admitted
C6_Witness ==
    /\ last.op = "add_attachment"
    /\ last.ret = "AttachmentError"
    /\ attachments # {}
    /\ exists(Path(last.path))
    /\ Disk[absolute(Path(last.path))[3]].is_file
    /\ Disk[absolute(Path(last.path))[3]].st_size > available_filesize

\* C7: available_filesize is FILESIZE_LIMIT less the sizes of the entries of
\* attachments, and is never negative.
C7_BudgetAccounting ==
    /\ available_filesize = FILESIZE_LIMIT - SumSizes(attachments)
    /\ available_filesize >= 0

\* two entries are attached and the latest call was refused
C7_Witness ==
    /\ Cardinality(attachments) >= 2
    /\ last.op = "add_attachment"
    /\ last.ret = "AttachmentError"

\* C8: every entry of attachments has a size above zero, and add_attachment
\* of an existing path of size 0 raises nothing and changes nothing.
C8_ZeroByteSkipped ==
    /\ [](\A p \in attachments : Disk[absolute(p)[3]].st_size > 0)
    /\ [][(/\ last'.op = "add_attachment"
           /\ exists(Path(last'.path))
           /\ Disk[absolute(Path(last'.path))[3]].st_size = 0)
             => (last'.ret = None /\ UNCHANGED att_vars)]_vars

\* an empty path was skipped on a draft whose budget is used up
C8_Witness ==
    /\ last.op = "add_attachment"
    /\ last.ret = None
    /\ exists(Path(last.path))
    /\ Disk[absolute(Path(last.path))[3]].st_size = 0
    /\ attachments # {}
    /\ available_filesize = 0

(***************************************************************************)
(* Properties of send, checked under SpecSend.                             *)
(***************************************************************************)
Range(q) == {q[i] : i \in DOMAIN q}

\* C9: send on a draft whose rec is empty raises EmailError and makes no
\* sendmail call.
C9_EmptyRecRaises ==
    [][(last'.op = "send" /\ rec = {})
          => (last'.ret = "EmailError" /\ UNCHANGED transport_vars)]_vars

\* send raised EmailError on a logged-in draft that has cc and bcc addresses
C9_Witness ==
    /\ last.op = "send"
    /\ last.ret = "EmailError"
    /\ cc # {} /\ bcc # {}
    /\ email_handler # NoHandler
    /\ email_handler.connected

\* C10: the recipient list of every sendmail call holds each address of
\* rec, cc and bcc once and nothing else.
C10_EnvelopeIsUnion ==
    [][(sendmail_calls' # sendmail_calls)
          => /\ Range(wire'[1].to_addrs) = rec \cup cc \cup bcc
             /\ Len(wire'[1].to_addrs) = Cardinality(rec \cup cc \cup bcc)]_vars

\* a message went out from a draft with addresses in all three sets
C10_Witness ==
    /\ last.op = "send"
    /\ sendmail_calls > 0
    /\ rec # {} /\ cc # {} /\ bcc # {}
    /\ Range(wire[1].to_addrs) = rec \cup cc \cup bcc

\* C11: whenever sendmail returns a non-empty mapping of refused recipients,
\* send raises EmailError.
C11_FailuresRaiseEmailError ==
    [][(/\ last'.op = "send"
        /\ sendmail_calls' # sendmail_calls
        /\ email_handler.connected
        /\ last'.refused # {}
        /\ last'.refused # rec \cup cc \cup bcc)
          => last'.ret = "EmailError"]_vars

(***************************************************************************)
(* Properties of set_custom_email_validator, checked under SpecValidator.  *)
(***************************************************************************)
\* C12: with "all" in the list the call gives all four scopes the new
\* validator; with a list of scope names without "all" it gives exactly the
\* listed scopes the new validator; a scope that is not listed keeps its
\* validator; and validating an address in a replaced scope gives what the
\* new validator gives for it.
C12_ReplacesListedScopes ==
    [][(last'.op = "set_custom_email_validator")
          => /\ ("all" \in Range(last'.scopes))
                   => \A s \in Scopes : email_validators'[s] = last'.validator
             /\ ("all" \notin Range(last'.scopes)
                  /\ Range(last'.scopes) \subseteq {"author", "recipients", "cc", "bcc"})
                   => \A s \in Scopes :
                         email_validators'[s] =
                            IF s \in Range(last'.scopes)
                            THEN last'.validator
                            ELSE email_validators[s]
             /\ ("all" \notin Range(last'.scopes))
                   => \A s \in Scopes \ Range(last'.scopes) :
                         email_validators'[s] = email_validators[s]
             /\ \A s \in Scopes :
                   (email_validators'[s] # email_validators[s])
                      => \A a \in Addresses :
                            check_if_valid_email_address(a, s)'
                               = ApplyValidator(last'.validator, a)]_vars

\* a call listing two scopes returned; they hold the new validator and
\* another scope holds a different one
C12_Witness ==
    /\ last.op = "set_custom_email_validator"
    /\ last.ret = None
    /\ Len(last.scopes) = 2
    /\ last.scopes[1] # last.scopes[2]
    /\ Range(last.scopes) \subseteq Scopes
    /\ \A s \in Range(last.scopes) : email_validators[s] = last.validator
    /\ \E s \in Scopes \ Range(last.scopes) : email_validators[s] # last.validator
    /\ \E a \in Addresses :
          check_if_valid_email_address(a, last.scopes[1])
             # default_email_validator(a)

\* C13: the call raises ValueError whenever the list holds a name outside
\* all, author, recipients, cc, bcc.
C13_InvalidScopeRaises ==
    [][(/\ last'.op = "set_custom_email_validator"
        /\ \E i \in 1..Len(last'.scopes) :
              last'.scopes[i] \notin {"all", "author", "recipients", "cc", "bcc"})
          => last'.ret = "ValueError"]_vars

(***************************************************************************)
(* Properties of login, checked under SpecLogin.                           *)
(***************************************************************************)
\* C14: author stays unset until a login succeeds, and once it is set no
\* operation changes it.
C14_AuthorAssignedOnce ==
    [][/\ (author = NoAuthor /\ ~(last'.op = "login" /\ last'.ret = "self"))
             => author' = NoAuthor
       /\ (author # NoAuthor) => author' = author]_vars

\* C15: a chainable operation that does not raise returns the draft (never
\* None).  Checked under SpecAtt.
C15_ChainableReturnsSelf ==
    (last.op \in {"login", "add_recipient", "add_cc", "add_bcc", "set_body",
                  "set_subject", "send", "add_attachment"})
       => last.ret # None

(***************************************************************************)
(* Properties of the default validator, checked under SpecValidate.        *)
(***************************************************************************)
\* the pieces of s between the occurrences of the character c
RECURSIVE Split(_, _)
Split(s, c) ==
    IF \E i \in 1..Len(s) : s[i] = c
    THEN LET i == CHOOSE k \in 1..Len(s) :
                     s[k] = c /\ \A m \in 1..(k - 1) : s[m] # c
         IN  <<SubSeq(s, 1, i - 1)>> \o Split(SubSeq(s, i + 1, Len(s)), c)
    ELSE <<s>>

MadeOf(s, chars) == \A i \in 1..Len(s) : s[i] \in chars

\* local-part@domain with a non-empty local part of `local` characters and
\* a domain of two or more non-empty dot-separated segments, the first of
\* `first` characters and the others of `others` characters
HasShape(address, local, first, others) ==
    LET halves == Split(address, "@")
        segments == Split(halves[2], ".")
    IN  /\ Len(halves) = 2
        /\ Len(halves[1]) > 0
        /\ MadeOf(halves[1], local)
        /\ Len(segments) >= 2
        /\ \A i \in 1..Len(segments) : Len(segments[i]) > 0
        /\ MadeOf(segments[1], first)
        /\ \A i \in 2..Len(segments) : MadeOf(segments[i], others)

\* C16 as stated: the validator accepts exactly the addresses whose local
\* part and whose domain segments are made of word characters, digits, "-",
\* "_" and "+" (and "." in the local part), the domain having a top-level
\* segment; it accepts the tests' valid address and rejects the invalid one.
C16_AcceptsExactlyTheShape ==
    (last.op = "_default_email_validator")
       => /\ (last.ret = "True")
                <=> HasShape(last.address, WordChars \cup {"-", "+", "."},
                             WordChars \cup {"-", "+"}, WordChars \cup {"-", "+"})
          /\ (last.address = test_valid_address) => last.ret = "True"
          /\ (last.address = test_invalid_address) => last.ret = "False"

\* C16 amended: as stated, except that "-" and "+" are allowed only in the
\* first segment of the domain: every later segment is made of word
\* characters and digits alone.
C16_AcceptsExactlyTheStricterShape ==
    (last.op = "_default_email_validator")
       => /\ (last.ret = "True")
                <=> HasShape(last.address, WordChars \cup {"-", "+", "."},
                             WordChars \cup {"-", "+"}, WordChars)
          /\ (last.address = test_valid_address) => last.ret = "True"
          /\ (last.address = test_invalid_address) => last.ret = "False"

\* the validator accepted an address with a capital letter and a "-" in the
\* first segment of its domain
C16_Witness ==
    /\ last.op = "_default_email_validator"
    /\ last.ret = "True"
    /\ \E i \in 1..Len(last.address) : last.address[i] = "A"
    /\ LET halves == Split(last.address, "@")
       IN  /\ Len(halves) = 2
           /\ \E i \in 1..Len(Split(halves[2], ".")[1]) :
                 Split(halves[2], ".")[1][i] = "-"

(***************************************************************************)
(* The order of the checks, under SpecAtt (C17, C18) and SpecAddr (C19).   *)
(***************************************************************************)
\* C17: add_attachment of a path that is no regular file (a directory, or
\* nothing at all) raises AttachmentError and changes nothing.
C17_NotAFileRaises ==
    [][(/\ last'.op = "add_attachment"
        /\ \/ ~exists(Path(last'.path))
           \/ ~Disk[absolute(Path(last'.path))[3]].is_file)
          => (last'.ret = "AttachmentError" /\ UNCHANGED att_vars)]_vars

\* C18: add_attachment of a path that is an entry of attachments returns
\* without raising and changes nothing, whatever the file and budget checks
\* would say; so does add_attachment of an existing path of size 0 that is
\* no regular file.
C18_EarlyReturnsComeFirst ==
    [][(last'.op = "add_attachment")
          => /\ (Path(last'.path) \in attachments)
                   => (last'.ret = None /\ UNCHANGED att_vars)
             /\ (/\ exists(Path(last'.path))
                 /\ Disk[absolute(Path(last'.path))[3]].st_size = 0
                 /\ ~Disk[absolute(Path(last'.path))[3]].is_file)
                   => (last'.ret = None /\ UNCHANGED att_vars)]_vars

\* an attached file larger than what is left was added again and the call
\* returned
C18_Witness ==
    /\ last.op = "add_attachment"
    /\ last.ret = None
    /\ Path(last.path) \in attachments
    /\ Disk[absolute(Path(last.path))[3]].st_size > available_filesize

\* C19: an add of an address that one of the other two sets holds and that
\* fails the validator of the operation's scope raises the invalid-address
\* error.
C19_ValidatorBeforeMembership ==
    [][(/\ last'.op \in AddOps
        /\ last'.address \in OthersOf(last'.op)
        /\ ~ApplyValidator(email_validators[ScopeOf(last'.op)], last'.address))
          => last'.ret = "NotAValidEmailAddressError"]_vars

\* add_cc raised for an address that rec or bcc holds
C19_Witness ==
    /\ last.op = "add_cc"
    /\ last.ret = "NotAValidEmailAddressError"
    /\ last.address \in rec \cup bcc

(***************************************************************************)
(* A draft that is written, sent and written again: every mutating         *)
(* operation, a login the host accepts and a send the host accepts in      *)
(* full.                                                                   *)
(***************************************************************************)
NextDraft ==
    \/ add_recipient(boss)
    \/ \E address \in {spy, malformed} : add_cc(address)
    \/ add_bcc(spy)
    \/ set_body("hello")
    \/ set_subject("hello")
    \/ \E validator \in Validators :
          set_custom_email_validator(validator, <<"cc">>)
    \/ \E path \in {<<"10kb.txt">>, <<"empty.txt">>} : add_attachment(path)
    \/ login(boss, TRUE, "ok")
    \/ \E to_addrs \in Arrangements(envelope),
          cc_order \in Arrangements(cc),
          att_order \in Arrangements(attachments) :
          send(to_addrs, cc_order, att_order, {})

SpecDraft == Construct(MaxLimit) /\ [][NextDraft]_vars

\* C20: a send that succeeds leaves subject, body, rec, cc, bcc,
\* attachments, available_filesize, author and timestamp unchanged; and on
\* every step, whether or not a send came before it, set_body and
\* set_subject store their text, an add of an address that passes the
\* scope's validator and is in neither other set puts it in the set, an
\* add_attachment of a non-empty regular file that is not yet attached and
\* fits attaches it, and a send of a draft with a recipient over a live
\* session goes out and returns the draft.
C20_SendLeavesDraftOpen ==
    [][/\ (last'.op = "send" /\ last'.ret = "self")
            => UNCHANGED <<subject, body, rec, cc, bcc, attachments,
                           available_filesize, author, timestamp>>
       /\ (last'.op = "set_body")
            => (body' = last'.text /\ last'.ret = "self")
       /\ (last'.op = "set_subject")
            => (subject' = last'.text /\ last'.ret = "self")
       /\ (/\ last'.op \in AddOps
           /\ last'.address \notin OthersOf(last'.op)
           /\ ApplyValidator(email_validators[ScopeOf(last'.op)], last'.address))
            => /\ last'.ret = "self"
               /\ last'.address \in
                     (CASE last'.op = "add_recipient" -> rec'
                        [] last'.op = "add_cc" -> cc'
                        [] last'.op = "add_bcc" -> bcc')
       /\ (/\ last'.op = "add_attachment"
           /\ Path(last'.path) \notin attachments
           /\ exists(Path(last'.path))
           /\ Disk[absolute(Path(last'.path))[3]].is_file
           /\ Disk[absolute(Path(last'.path))[3]].st_size > 0
           /\ Disk[absolute(Path(last'.path))[3]].st_size <= available_filesize)
            => (last'.ret = "self" /\ Path(last'.path) \in attachments')
       /\ (/\ last'.op = "send"
           /\ rec # {}
           /\ email_handler # NoHandler
           /\ last'.refused = {})
            => (last'.ret = "self" /\ sendmail_calls' = sendmail_calls + 1)]_vars

\* the subject was set after the second of two sends, both of which the
\* host accepted, and differs from the subject that went out
C20_Witness ==
    /\ sendmail_calls = 2
    /\ last.op = "set_subject"
    /\ last.ret = "self"
    /\ wire[1].msg.Subject # subject

(***************************************************************************)
(* Addressing with blind copies, among them the sender's own address, on   *)
(* a draft that is logged in and sent.                                     *)
(***************************************************************************)
NextBcc ==
    \/ add_recipient(spy)
    \/ add_cc(alreadybcc)
    \/ \E address \in {boss, alreadybcc, spy} : add_bcc(address)
    \/ set_subject("hello")
    \/ \E username \in {boss, spy} : login(username, TRUE, "ok")
    \/ \E to_addrs \in Arrangements(envelope),
          cc_order \in Arrangements(cc),
          att_order \in Arrangements(attachments) :
          send(to_addrs, cc_order, att_order, {})

SpecBcc == Construct(MaxLimit) /\ [][NextBcc]_vars

\* the address occurs in the header's text
Contains(header, address) ==
    \E i \in 1..(Len(header) - Len(address) + 1) :
        SubSeq(header, i, i + Len(address) - 1) = address

\* a step between two drafts that differ in bcc and in nothing else that
\* a message is composed from
DiffersInBccOnly ==
    /\ bcc' # bcc
    /\ UNCHANGED <<rec, cc, subject, body, author, timestamp, attachments>>

\* C21 as stated: two drafts that differ only in bcc compose the same
\* message, the message that send hands over is that composed message, the
\* envelope is all of rec, cc and bcc, and no bcc address occurs in the
\* From or Cc header.
C21_NoBccInHeaders ==
    [][/\ DiffersInBccOnly
            => \A cc_order \in Arrangements(cc),
                  att_order \in Arrangements(attachments) :
                  Message(cc_order, att_order)' = Message(cc_order, att_order)
       /\ (last'.op = "send" /\ sendmail_calls' # sendmail_calls)
            => /\ \E cc_order \in Arrangements(cc),
                     att_order \in Arrangements(attachments) :
                     wire'[1].msg = Message(cc_order, att_order)
               /\ Range(wire'[1].to_addrs) = rec \cup cc \cup bcc
               /\ \A b \in bcc :
                     /\ ~Contains(wire'[1].msg.Cc, b)
                     /\ ~Contains(wire'[1].msg.From, b)]_vars

\* C21 amended: two drafts that differ only in bcc compose the same
\* message, the message that send hands over is that composed message, the
\* envelope is all of rec, cc and bcc, no bcc address occurs in the Cc
\* header, and a bcc address occurs in the From header only when it is the
\* author's own address.
C21_BccOnlyInEnvelope ==
    [][/\ DiffersInBccOnly
            => \A cc_order \in Arrangements(cc),
                  att_order \in Arrangements(attachments) :
                  Message(cc_order, att_order)' = Message(cc_order, att_order)
       /\ (last'.op = "send" /\ sendmail_calls' # sendmail_calls)
            => /\ \E cc_order \in Arrangements(cc),
                     att_order \in Arrangements(attachments) :
                     wire'[1].msg = Message(cc_order, att_order)
               /\ Range(wire'[1].to_addrs) = rec \cup cc \cup bcc
               /\ \A b \in bcc :
                     /\ ~Contains(wire'[1].msg.Cc, b)
                     /\ Contains(wire'[1].msg.From, b) => b = author]_vars

\* a message went out from a sender who is also a blind-copy recipient, on
\* a draft that has a cc recipient
C21_Witness ==
    /\ last.op = "send"
    /\ last.ret = "self"
    /\ author \in bcc
    /\ cc # {}
    /\ Contains(wire[1].msg.From, author)

\* C22: whenever set_custom_email_validator raises ValueError, none of the
\* four registered validators has been replaced.
C22_RaisesWithoutReplacing ==
    [][(last'.op = "set_custom_email_validator" /\ last'.ret = "ValueError")
          => email_validators' = email_validators]_vars

(***************************************************************************)
(* Logging in with accepted and refused usernames and credentials, under   *)
(* either author validator, on a draft that is addressed and sent.         *)
(***************************************************************************)
NextAuth ==
    \/ add_recipient(alreadybcc)
    \/ \E username \in {boss, spy, malformed}, use_starttls \in BOOLEAN,
          answer \in HostAnswers :
          login(username, use_starttls, answer)
    \/ logout
    \/ \E validator \in Validators :
          set_custom_email_validator(validator, <<"author">>)
    \/ SendStep

SpecAuth == Construct(MaxLimit) /\ [][NextAuth]_vars

\* C23: a login that raises leaves author and email_handler as they were; a
\* username that fails the author validator raises
\* NotAValidEmailAddressError whatever the host would answer; email_handler
\* and author stay unset until a login returns; and send hands a message to
\* the transport only when both are set, with the author as the sender.
C23_FailedLoginChangesNothing ==
    [][/\ (last'.op = "login" /\ last'.ret # "self")
            => UNCHANGED <<author, email_handler>>
       /\ (/\ last'.op = "login"
           /\ ~ApplyValidator(email_validators["author"], last'.username))
            => last'.ret = "NotAValidEmailAddressError"
       /\ (/\ email_handler = NoHandler
           /\ ~(last'.op = "login" /\ last'.ret = "self"))
            => (email_handler' = NoHandler /\ author' = NoAuthor)
       /\ (sendmail_calls' # sendmail_calls)
            => /\ email_handler # NoHandler
               /\ author # NoAuthor
               /\ wire'[1].from_addr = author]_vars

\* the host refused the credentials of a second username after a message
\* had gone out in the name of the first, which is still the author
C23_Witness ==
    /\ last.op = "login"
    /\ last.ret = "SMTPAuthenticationError"
    /\ author # NoAuthor
    /\ last.username # author
    /\ email_handler.user = author
    /\ sendmail_calls > 0

====
